---------------------------- MODULE Spec2Model ----------------------------
(***************************************************************************)
(* PCB component placement (main.py): the geometry kernel, the keepout     *)
(* deriver, the candidate generators and the nested search find_solution.  *)
(*                                                                         *)
(* Units.  Component positions (x, y) and bounding rectangles are in board *)
(* units, as in the code.  Centers, the keepout rectangle and the segment  *)
(* test operate on multiples of 0.5 in the code (w/2.0, h/2.0); they are   *)
(* kept here as integers in HALF units (value * 2).  The center of mass is *)
(* sum/5 of such centers and is kept in TENTH units (value * 10).          *)
(* Every float the code computes on this instance is a small dyadic or a   *)
(* quotient of small integers, so comparisons on them are decided exactly  *)
(* by the integer cross-multiplications used below.                        *)
(***************************************************************************)
EXTENDS Integers, Sequences, FiniteSets, TLC

\* ---------------------------------------------------------------- bounds
MaxTime == 2          \* the elapsed time is capped at MaxTime ticks
Grid == 3             \* coordinates 0..Grid for the geometry-kernel inputs

\* ------------------------------------------------------- program constants
BOARD_W == 50
BOARD_H == 50
BOARD_CENTER == <<BOARD_W, BOARD_H>>      \* (W/2.0, H/2.0) in half units

COMP_SPECS ==
  [USB |-> <<5, 5>>, MCU |-> <<5, 5>>, CRYSTAL |-> <<5, 5>>,
   MB1 |-> <<5, 15>>, MB2 |-> <<5, 15>>]

Component(name, wh, x, y, rot) ==
  [name |-> name, w |-> wh[1], h |-> wh[2], x |-> x, y |-> y, rot |-> rot]

placed_dims(c) == IF c.rot = 0 THEN <<c.w, c.h>> ELSE <<c.h, c.w>>

\* (left, top, right, bottom), board units
rect(c) ==
  LET d == placed_dims(c) IN <<c.x, c.y, c.x + d[1], c.y + d[2]>>

\* (x + w/2.0, y + h/2.0), half units
center(c) ==
  LET d == placed_dims(c) IN <<2 * c.x + d[1], 2 * c.y + d[2]>>

\* ------------------------------------------------------ utility functions
Max(a, b) == IF a >= b THEN a ELSE b
Min(a, b) == IF a <= b THEN a ELSE b

\* int(v) of a float given in half units: truncation toward zero
int(v2) == IF v2 >= 0 THEN v2 \div 2 ELSE -((-v2) \div 2)

\* variant: hypot(a[1]-b[1], a[1]-b[1]), the y difference used twice
distance_gt_y_twice(a, b, d, scale) ==
  (a[2] - b[2]) * (a[2] - b[2]) + (a[2] - b[2]) * (a[2] - b[2])
    > (d * scale) * (d * scale)

\* distance(a, b) > d, for points a, b in units of 1/scale and d in board
\* units: hypot(ax-bx, ay-by) > d.  The squares are compared exactly; the
\* float result can differ only when the distance equals d up to rounding,
\* which for the centroid needs even half-unit sums, and the sum of the five
\* centers of odd-sized components is odd.
distance_gt(a, b, d, scale) ==
  (a[1] - b[1]) * (a[1] - b[1]) + (a[2] - b[2]) * (a[2] - b[2])
    > (d * scale) * (d * scale)

\* variant: strict comparisons, rectangles that touch count as overlapping
rect_overlap_strict(r1, r2) ==
  IF r1[3] < r2[1] \/ r2[3] < r1[1] THEN FALSE
  ELSE IF r1[4] < r2[2] \/ r2[4] < r1[2] THEN FALSE
  ELSE TRUE

rect_overlap(r1, r2) ==
  IF r1[3] <= r2[1] \/ r2[3] <= r1[1] THEN FALSE
  ELSE IF r1[4] <= r2[2] \/ r2[4] <= r1[2] THEN FALSE
  ELSE TRUE

\* fractions n/d with d > 0
FracGt(a, b) == a[1] * b[2] > b[1] * a[2]
FracLt(a, b) == a[1] * b[2] < b[1] * a[2]
Frac(q, p) == IF p < 0 THEN <<-q, -p>> ELSE <<q, p>>

\* the loop `for pi, qi in zip(p, q)` from its k-th pair on, with the
\* running interval [u1, u2]
RECURSIVE clip_loop(_, _, _, _, _)
clip_loop(p, q, k, u1, u2) ==
  IF k > 4 THEN ~FracLt(u2, u1)
  ELSE IF p[k] = 0
       THEN IF q[k] < 0 THEN FALSE ELSE clip_loop(p, q, k + 1, u1, u2)
       ELSE LET t == Frac(q[k], p[k]) IN
            IF p[k] < 0
            THEN IF FracGt(t, u2) THEN FALSE
                 ELSE clip_loop(p, q, k + 1, IF FracGt(t, u1) THEN t ELSE u1, u2)
            ELSE IF FracLt(t, u1) THEN FALSE
                 ELSE clip_loop(p, q, k + 1, u1, IF FracLt(t, u2) THEN t ELSE u2)

\* variant: the signs of the four p coefficients are swapped
line_segment_intersects_rect_p_swapped(p0, p1, rc) ==
  LET dx == p1[1] - p0[1]
      dy == p1[2] - p0[2]
      p == <<dx, -dx, dy, -dy>>
      q == <<p0[1] - rc[1], rc[3] - p0[1], p0[2] - rc[2], rc[4] - p0[2]>>
  IN  clip_loop(p, q, 1, <<0, 1>>, <<1, 1>>)

line_segment_intersects_rect(p0, p1, rc) ==
  LET dx == p1[1] - p0[1]
      dy == p1[2] - p0[2]
      p == <<-dx, dx, -dy, dy>>
      q == <<p0[1] - rc[1], rc[3] - p0[1], p0[2] - rc[2], rc[4] - p0[2]>>
  IN  clip_loop(p, q, 1, <<0, 1>>, <<1, 1>>)

\* variant: a rectangle ending exactly on the right or bottom edge is outside
inside_board_exclusive(c) ==
  LET r == rect(c) IN
  r[1] >= 0 /\ r[2] >= 0 /\ r[3] < BOARD_W /\ r[4] < BOARD_H

inside_board(c) ==
  LET r == rect(c) IN
  r[1] >= 0 /\ r[2] >= 0 /\ r[3] <= BOARD_W /\ r[4] <= BOARD_H

\* variant: the left and right edges are tested before the top and bottom
touching_sides_left_first(c) ==
  LET r == rect(c) IN
     (IF r[1] = 0 THEN <<"left">> ELSE <<>>)
  \o (IF r[3] = BOARD_W THEN <<"right">> ELSE <<>>)
  \o (IF r[2] = 0 THEN <<"top">> ELSE <<>>)
  \o (IF r[4] = BOARD_H THEN <<"bottom">> ELSE <<>>)

\* the list `sides`, in the order the code appends to it
touching_sides(c) ==
  LET r == rect(c) IN
     (IF r[2] = 0 THEN <<"top">> ELSE <<>>)
  \o (IF r[4] = BOARD_H THEN <<"bottom">> ELSE <<>>)
  \o (IF r[1] = 0 THEN <<"left">> ELSE <<>>)
  \o (IF r[3] = BOARD_W THEN <<"right">> ELSE <<>>)

\* returns (left, top, right, bottom) in half units
compute_usb_keepout(usb) ==
  LET r == rect(usb)
      d == placed_dims(usb)
      sides == touching_sides(usb)
      side == IF Len(sides) > 0 THEN sides[1] ELSE "top"
      box ==
        IF side = "top"
        THEN LET cx == 2 * r[1] + d[1]  cy == 2 * r[2]
             IN  <<cx - 10, cy, cx + 10, cy + 30>>
        ELSE IF side = "bottom"
        THEN LET cx == 2 * r[1] + d[1]  cy == 2 * r[4]
             IN  <<cx - 10, cy - 30, cx + 10, cy>>
        ELSE IF side = "left"
        THEN LET cx == 2 * r[1]  cy == 2 * r[2] + d[2]
             IN  <<cx, cy - 10, cx + 30, cy + 10>>
        ELSE LET cx == 2 * r[3]  cy == 2 * r[2] + d[2]
             IN  <<cx - 30, cy - 10, cx, cy + 10>>
  IN  <<Max(0, box[1]), Max(0, box[2]),
        Min(2 * BOARD_W, box[3]), Min(2 * BOARD_H, box[4])>>

RECURSIVE SumSeq(_)
SumSeq(s) == IF s = <<>> THEN 0 ELSE Head(s) + SumSeq(Tail(s))

\* variant: ys is built from center()[0] as well
center_of_mass_xs_twice(comps) ==
  <<(SumSeq([n \in 1..Len(comps) |-> center(comps[n])[1]]) * 5) \div Len(comps),
    (SumSeq([n \in 1..Len(comps) |-> center(comps[n])[1]]) * 5) \div Len(comps)>>

\* (sum(xs)/len(xs), sum(ys)/len(ys)) in tenth units: a mean of half-unit
\* centers is (sum * 5) / len tenths, exactly so for the five components
center_of_mass(comps) ==
  <<(SumSeq([n \in 1..Len(comps) |-> center(comps[n])[1]]) * 5) \div Len(comps),
    (SumSeq([n \in 1..Len(comps) |-> center(comps[n])[2]]) * 5) \div Len(comps)>>

\* ---------------------------------------------------- candidate generators
\* range(lo, hi, step) as a sequence
Range(lo, hi, step) ==
  IF hi <= lo THEN <<>>
  ELSE [n \in 1..((hi - lo + step - 1) \div step) |-> lo + (n - 1) * step]

generate_mb_mirrored_positions(step) ==
  LET w == COMP_SPECS.MB1[1]
      h == COMP_SPECS.MB1[2]
      ys == Range(0, BOARD_H - h + 1, step)
      xs == Range(0, BOARD_W - h + 1, step)
  IN  [n \in 1..Len(ys) |->
         <<"vertical", <<0, ys[n], 0>>, <<BOARD_W - w, ys[n], 0>>>>]
   \o [n \in 1..Len(xs) |->
         <<"horizontal", <<xs[n], 0, 90>>, <<xs[n], BOARD_H - w, 90>>>>]

generate_usb_edge_positions(step) ==
  LET w == COMP_SPECS.USB[1]
      h == COMP_SPECS.USB[2]
      xs == Range(0, BOARD_W - w + 1, step)
      ys == Range(0, BOARD_H - h + 1, step)
  IN  [n \in 1..(2 * Len(xs)) |->
         IF n % 2 = 1 THEN <<xs[(n + 1) \div 2], 0, 0>>
                      ELSE <<xs[n \div 2], BOARD_H - h, 0>>]
   \o [n \in 1..(2 * Len(ys)) |->
         IF n % 2 = 1 THEN <<0, ys[(n + 1) \div 2], 90>>
                      ELSE <<BOARD_W - w, ys[n \div 2], 90>>]

mb_positions == generate_mb_mirrored_positions(1)
usb_positions == generate_usb_edge_positions(1)

IsInDisc(o) == o[1] * o[1] + o[2] * o[2] <= 100

\* variant: dy is the outer range, dx the inner one
crystal_offsets_dy_major ==
  SelectSeq([n \in 1..(21 * 21) |-> <<((n - 1) % 21) - 10, ((n - 1) \div 21) - 10>>],
            IsInDisc)

crystal_offsets ==
  SelectSeq([n \in 1..(21 * 21) |-> <<((n - 1) \div 21) - 10, ((n - 1) % 21) - 10>>],
            IsInDisc)

\* ------------------------------------------------------------ main search
VARIABLES
  now,          \* time.time() - start, in ticks
  time_limit,   \* time_limit[r]: the budget of call r
  run,          \* run[r]: the locals and the position of call r
  gop,          \* the geometry function under test ("none" during search)
  g_in,         \* its inputs
  g_out         \* its result, <<>> before the call

vars == <<now, time_limit, run, gop, g_in, g_out>>

\* calls of find_solution that see the same clock
Runs == {1, 2}

None == <<>>
Unbound == Component("unbound", <<0, 0>>, 0, 0, 0)

\* locals of find_solution at its entry to the outer loop
EntryState ==
  [pc |-> "mb_loop", i |-> 1, j |-> 1, k |-> 1,
   mb1 |-> Unbound, mb2 |-> Unbound, usb |-> Unbound, mcu |-> Unbound,
   keepout |-> <<0, 0, 0, 0>>, result |-> None]

\* variant: half the width (2.5) is subtracted before truncation
mcu_position_half_width == <<int(BOARD_CENTER[1] - 5), int(BOARD_CENTER[2] - 5)>>

\* mx, my = int(BOARD_CENTER[0]-2), int(BOARD_CENTER[1]-2)
mcu_position == <<int(BOARD_CENTER[1] - 4), int(BOARD_CENTER[2] - 4)>>

\* the CRYSTAL built for offset (dx, dy) around the MCU
crystal_at(mcu, off) ==
  LET cx == center(mcu)[1] + 2 * off[1]
      cy == center(mcu)[2] + 2 * off[2]
  IN  Component("CRYSTAL", COMP_SPECS.CRYSTAL, int(cx - 4), int(cy - 4), 0)

overlaps_any(c, others) ==
  \E n \in 1..Len(others) : rect_overlap(rect(c), rect(others[n]))

\* variant: the comparison is reversed
timed_out_reversed(limit, t) == t < limit

\* variant: the check is one tick late
timed_out_late(limit, t) == t > limit + 1

\* time.time()-start > time_limit
timed_out(limit, t) == t > limit

\* one iteration of `for orient,mb1p,mb2p in mb_positions`
mb_iteration(s, limit, t) ==
  IF s.i > Len(mb_positions) THEN [s EXCEPT !.pc = "done", !.result = None]
  ELSE IF timed_out(limit, t) THEN [s EXCEPT !.pc = "done", !.result = None]
  ELSE LET c == mb_positions[s.i]
           mb1 == Component("MB1", COMP_SPECS.MB1, c[2][1], c[2][2], c[2][3])
           mb2 == Component("MB2", COMP_SPECS.MB2, c[3][1], c[3][2], c[3][3])
           s1 == [s EXCEPT !.mb1 = mb1, !.mb2 = mb2]
       IN  IF ~(inside_board(mb1) /\ inside_board(mb2))
           THEN [s1 EXCEPT !.i = s.i + 1]
           ELSE IF rect_overlap(rect(mb1), rect(mb2))
           THEN [s1 EXCEPT !.i = s.i + 1]
           ELSE [s1 EXCEPT !.pc = "usb_loop", !.j = 1]

\* one iteration of `for usbp in usb_positions`
usb_iteration(s, limit, t) ==
  IF s.j > Len(usb_positions) THEN [s EXCEPT !.pc = "mb_loop", !.i = s.i + 1]
  ELSE IF timed_out(limit, t) THEN [s EXCEPT !.pc = "mb_loop", !.i = s.i + 1]
  ELSE LET c == usb_positions[s.j]
           usb == Component("USB", COMP_SPECS.USB, c[1], c[2], c[3])
           s1 == [s EXCEPT !.usb = usb]
       IN  IF ~inside_board(usb) THEN [s1 EXCEPT !.j = s.j + 1]
           ELSE IF overlaps_any(usb, <<s.mb1, s.mb2>>)
           THEN [s1 EXCEPT !.j = s.j + 1]
           ELSE LET keepout == compute_usb_keepout(usb)
                    mcu == Component("MCU", COMP_SPECS.MCU,
                                     mcu_position[1], mcu_position[2], 0)
                    s2 == [s1 EXCEPT !.keepout = keepout, !.mcu = mcu]
                IN  IF overlaps_any(mcu, <<usb, s.mb1, s.mb2>>)
                    THEN [s2 EXCEPT !.j = s.j + 1]
                    ELSE [s2 EXCEPT !.pc = "cryst_loop", !.k = 1]

\* one iteration of `for dx,dy in crystal_offsets`
cryst_iteration(s) ==
  IF s.k > Len(crystal_offsets) THEN [s EXCEPT !.pc = "usb_loop", !.j = s.j + 1]
  ELSE LET cryst == crystal_at(s.mcu, crystal_offsets[s.k])
           comps == <<s.usb, s.mb1, s.mb2, s.mcu, cryst>>
           com == center_of_mass(comps)
           next == [s EXCEPT !.k = s.k + 1]
       IN  IF ~inside_board(cryst) THEN next
           ELSE IF overlaps_any(cryst, <<s.usb, s.mb1, s.mb2, s.mcu>>) THEN next
           ELSE IF distance_gt(center(cryst), center(s.mcu), 10, 2) THEN next
           ELSE IF line_segment_intersects_rect(center(cryst), center(s.mcu),
                                                s.keepout) THEN next
           ELSE IF distance_gt(com, <<5 * BOARD_CENTER[1], 5 * BOARD_CENTER[2]>>,
                               2, 10) THEN next
           ELSE [s EXCEPT !.pc = "done",
                          !.result = <<[USB |-> s.usb, MB1 |-> s.mb1,
                                        MB2 |-> s.mb2, MCU |-> s.mcu,
                                        CRYSTAL |-> cryst,
                                        keepout |-> s.keepout, com |-> com]>>]

\* the next step of a call of find_solution that reads the clock as t
find_solution(s, limit, t) ==
  CASE s.pc = "mb_loop" -> mb_iteration(s, limit, t)
    [] s.pc = "usb_loop" -> usb_iteration(s, limit, t)
    [] s.pc = "cryst_loop" -> cryst_iteration(s)
    [] OTHER -> s

SearchInit ==
  /\ now = 0
  /\ time_limit \in [Runs -> 0..MaxTime]
  /\ run = [r \in Runs |-> EntryState]
  /\ gop = "none"
  /\ g_in = <<>>
  /\ g_out = <<>>

\* the clock advances between two steps of the search
Tick ==
  /\ now < MaxTime
  /\ \E r \in Runs : run[r].pc # "done"
  /\ now' = now + 1
  /\ UNCHANGED <<time_limit, run, gop, g_in, g_out>>

\* every call that has not returned takes its next step, at the same time
Step ==
  /\ \E r \in Runs : run[r].pc # "done"
  /\ run' = [r \in Runs |-> find_solution(run[r], time_limit[r], now)]
  /\ UNCHANGED <<now, time_limit, gop, g_in, g_out>>

Next == Tick \/ Step

Spec == SearchInit /\ [][Next]_vars

\* --------------------------------------------- geometry kernel, in isolation
Coord == 0..Grid
Points == Coord \X Coord
\* well-formed rectangles: left < right, top < bottom
Rects == {rc \in Coord \X Coord \X Coord \X Coord : rc[1] < rc[3] /\ rc[2] < rc[4]}

\* every placement of the USB component inside the board, both rotations
UsbPlacements ==
  {Component("USB", COMP_SPECS.USB, x, y, rot) :
     x \in 0..(BOARD_W - COMP_SPECS.USB[1]),
     y \in 0..(BOARD_H - COMP_SPECS.USB[2]),
     rot \in {0, 90}}

GeomInit ==
  /\ now = 0
  /\ time_limit = [r \in Runs |-> 0]
  /\ run = [r \in Runs |-> [EntryState EXCEPT !.pc = "done"]]
  /\ g_out = <<>>
  /\ \/ gop = "rect_overlap" /\ g_in \in Rects \X Rects
     \/ gop = "line_segment_intersects_rect" /\ g_in \in Points \X Points \X Rects
     \/ gop = "compute_usb_keepout" /\ g_in \in {<<c>> : c \in UsbPlacements}

CallRectOverlap ==
  /\ gop = "rect_overlap" /\ g_out = <<>>
  /\ g_out' = <<rect_overlap(g_in[1], g_in[2])>>
  /\ UNCHANGED <<now, time_limit, run, gop, g_in>>

CallSegmentIntersectsRect ==
  /\ gop = "line_segment_intersects_rect" /\ g_out = <<>>
  /\ g_out' = <<line_segment_intersects_rect(g_in[1], g_in[2], g_in[3])>>
  /\ UNCHANGED <<now, time_limit, run, gop, g_in>>

CallComputeUsbKeepout ==
  /\ gop = "compute_usb_keepout" /\ g_out = <<>>
  /\ g_out' = <<compute_usb_keepout(g_in[1])>>
  /\ UNCHANGED <<now, time_limit, run, gop, g_in>>

GeomNext == CallRectOverlap \/ CallSegmentIntersectsRect \/ CallComputeUsbKeepout

SpecGeom == GeomInit /\ [][GeomNext]_vars

\* ------------------------------------------------------------------ claims
\* Reference geometry, stated independently of the code.

\* the two rectangles share a unit cell of the grid, i.e. (for integer
\* corners) their intersection has positive area
SharesCell(a, b, n) ==
  \E x \in 0..(n - 1), y \in 0..(n - 1) :
    /\ a[1] <= x /\ x + 1 <= a[3] /\ a[2] <= y /\ y + 1 <= a[4]
    /\ b[1] <= x /\ x + 1 <= b[3] /\ b[2] <= y /\ y + 1 <= b[4]

\* the intersection is non-empty but has zero area (shared edge or corner)
TouchOnly(a, b) ==
  /\ Max(a[1], b[1]) <= Min(a[3], b[3])
  /\ Max(a[2], b[2]) <= Min(a[4], b[4])
  /\ (Max(a[1], b[1]) = Min(a[3], b[3]) \/ Max(a[2], b[2]) = Min(a[4], b[4]))

\* side of point c relative to the line through a and b
Cross(a, b, c) ==
  (b[1] - a[1]) * (c[2] - a[2]) - (b[2] - a[2]) * (c[1] - a[1])

Corners(rc) == {<<rc[1], rc[2]>>, <<rc[3], rc[2]>>, <<rc[1], rc[4]>>, <<rc[3], rc[4]>>}

\* the segment's bounding box and the rectangle are disjoint
BoxDisjoint(a, b, rc) ==
  \/ Max(a[1], b[1]) < rc[1] \/ Min(a[1], b[1]) > rc[3]
  \/ Max(a[2], b[2]) < rc[2] \/ Min(a[2], b[2]) > rc[4]

\* closed segment and closed rectangle share a point: no separating axis
\* among the rectangle's two axes and the segment's normal
SegmentMeetsRect(a, b, rc) ==
  /\ ~BoxDisjoint(a, b, rc)
  /\ ~(\A c \in Corners(rc) : Cross(a, b, c) > 0)
  /\ ~(\A c \in Corners(rc) : Cross(a, b, c) < 0)

RectContainsSegment(a, b, rc) ==
  \A pt \in {a, b} :
    rc[1] <= pt[1] /\ pt[1] <= rc[3] /\ rc[2] <= pt[2] /\ pt[2] <= rc[4]

\* C5: rect_overlap(r1, r2) is true exactly when the intersection of the two
\* well-formed rectangles has positive area; it is symmetric in its
\* arguments, and rectangles sharing only an edge or a corner do not overlap.
C5_RectOverlapPositiveArea ==
  (gop = "rect_overlap" /\ g_out # <<>>) =>
    /\ g_out[1] = SharesCell(g_in[1], g_in[2], Grid)
    /\ g_out[1] = rect_overlap(g_in[2], g_in[1])
    /\ TouchOnly(g_in[1], g_in[2]) => g_out[1] = FALSE

C5_Witness ==
  /\ gop = "rect_overlap" /\ g_out = <<FALSE>>
  /\ TouchOnly(g_in[1], g_in[2])
  /\ g_in[1] # g_in[2]

\* C6: line_segment_intersects_rect(p0, p1, rect) is true exactly when the
\* closed segment (possibly a single point, possibly axis-parallel) and the
\* closed rectangle share a point; true when the rectangle contains the
\* segment, false when the rectangle is disjoint from its bounding box.
C6_SegmentIntersectsExact ==
  (gop = "line_segment_intersects_rect" /\ g_out # <<>>) =>
    /\ g_out[1] = SegmentMeetsRect(g_in[1], g_in[2], g_in[3])
    /\ RectContainsSegment(g_in[1], g_in[2], g_in[3]) => g_out[1] = TRUE
    /\ BoxDisjoint(g_in[1], g_in[2], g_in[3]) => g_out[1] = FALSE

\* a diagonal segment that misses a rectangle its bounding box overlaps
C6_Witness ==
  /\ gop = "line_segment_intersects_rect" /\ g_out = <<FALSE>>
  /\ ~BoxDisjoint(g_in[1], g_in[2], g_in[3])
  /\ g_in[1][1] # g_in[2][1] /\ g_in[1][2] # g_in[2][2]

Done(r) == run[r].pc = "done"
\* call r has returned and no clock reading up to now exceeded its budget
NeverExceeded(r) == Done(r) /\ now <= time_limit[r]
Returned(r) == Done(r) /\ run[r].result # None
Sol(r) == run[r].result[1]

FiveNames == <<"USB", "MB1", "MB2", "MCU", "CRYSTAL">>
CompOf(sol, n) ==
  CASE n = "USB" -> sol.USB [] n = "MB1" -> sol.MB1 [] n = "MB2" -> sol.MB2
    [] n = "MCU" -> sol.MCU [] n = "CRYSTAL" -> sol.CRYSTAL

\* positive-area intersection of two rectangles
PositiveArea(a, b) ==
  Max(a[1], b[1]) < Min(a[3], b[3]) /\ Max(a[2], b[2]) < Min(a[4], b[4])

\* twice the squared distance terms, on half-unit points
SqDist(a, b) ==
  (a[1] - b[1]) * (a[1] - b[1]) + (a[2] - b[2]) * (a[2] - b[2])

\* sum of the five centers (half units); the centroid is this sum / 10
CenterSum(sol) ==
  <<SumSeq([n \in 1..5 |-> center(CompOf(sol, FiveNames[n]))[1]]),
    SumSeq([n \in 1..5 |-> center(CompOf(sol, FiveNames[n]))[2]])>>

HardConstraints(sol) ==
  /\ \A n \in 1..5 :
       LET rc == rect(CompOf(sol, FiveNames[n])) IN
       rc[1] >= 0 /\ rc[2] >= 0 /\ rc[3] <= 50 /\ rc[4] <= 50
  /\ \A m, n \in 1..5 :
       m < n => ~PositiveArea(rect(CompOf(sol, FiveNames[m])),
                              rect(CompOf(sol, FiveNames[n])))
  /\ SqDist(center(sol.CRYSTAL), center(sol.MCU)) <= 20 * 20
  /\ ~SegmentMeetsRect(center(sol.CRYSTAL), center(sol.MCU), sol.keepout)
  /\ SqDist(CenterSum(sol), <<250, 250>>) <= 20 * 20

\* C1: on the default instance a call whose budget is never exceeded
\* returns a solution, not None.
C1_DefaultInstanceHasSolution ==
  \A r \in Runs : NeverExceeded(r) => run[r].result # None

C1_Witness ==
  \E r \in Runs : NeverExceeded(r) /\ Returned(r) /\ time_limit[r] < MaxTime

\* C2: every returned solution, whenever the budget expires, has all five
\* rectangles inside the board, pairwise without positive-area overlap, the
\* CRYSTAL center within 10 of the MCU center, the segment between those
\* centers clear of the returned keepout, and the centroid of the five
\* centers within 2 of (25, 25).
C2_ReturnedSolutionSatisfiesHardConstraints ==
  \A r \in Runs : Returned(r) => HardConstraints(Sol(r))

\* a solution returned by a call whose budget expired before it returned
C2_Witness ==
  \E r \in Runs : Returned(r) /\ now > time_limit[r]
                   /\ Sol(r).keepout # <<0, 0, 0, 0>>

EdgesTouched(rc) ==
  {e \in {"top", "bottom", "left", "right"} :
     \/ e = "top" /\ rc[2] = 0
     \/ e = "bottom" /\ rc[4] = 50
     \/ e = "left" /\ rc[1] = 0
     \/ e = "right" /\ rc[3] = 50}

\* C3: in every returned solution the USB rectangle touches exactly one
\* board edge (never a corner placement).
C3_UsbTouchesExactlyOneEdge ==
  \A r \in Runs : Returned(r) => Cardinality(EdgesTouched(rect(Sol(r).USB))) = 1

\* a solution was returned after a corner placement of the USB was tried
C3_Witness ==
  \E r \in Runs :
    /\ Returned(r)
    /\ \E j \in 1..(run[r].j - 1) :
         LET c == usb_positions[j] IN
         Cardinality(EdgesTouched(rect(Component("USB", COMP_SPECS.USB,
                                                 c[1], c[2], c[3])))) = 2

\* C7: under the same timing, a larger budget that returns None implies the
\* smaller budget returns None, and a solution returned under the smaller
\* budget is the solution returned under the larger one (in particular
\* under a budget that is never exceeded).
C7_MonotonicBudget ==
  \A a, b \in Runs :
    (Done(a) /\ Done(b) /\ time_limit[b] <= time_limit[a]) =>
      /\ run[a].result = None => run[b].result = None
      /\ run[b].result # None => run[b].result = run[a].result

\* the smaller budget timed out where the larger one found the solution
C7_Witness ==
  \E a, b \in Runs :
    /\ Done(a) /\ Done(b) /\ time_limit[b] < time_limit[a]
    /\ run[a].result # None /\ run[b].result = None

\* no candidate is materialised by the step of call r
NoCandidate(r) ==
  /\ run'[r].mb1 = run[r].mb1 /\ run'[r].mb2 = run[r].mb2
  /\ run'[r].usb = run[r].usb
  /\ run'[r].k = run[r].k
  /\ run'[r].result = None

\* C8 as stated: once the budget is exceeded, no step of the search at any
\* of the three stages evaluates a candidate, and no solution is returned.
C8_NoEvaluationAfterExpiryAnyStage ==
  [][\A r \in Runs :
       (now > time_limit[r] /\ run'[r] # run[r]) => NoCandidate(r)]_vars

\* C8 amended: the clock is read at the head of each mirrored-pair and each
\* edge-position iteration only.  A step at one of these two stages taken
\* with the budget exceeded evaluates no candidate: the edge loop is left
\* for the outer loop, the outer loop returns None.
C8_ExpiryStopsPairAndEdgeStages ==
  [][\A r \in Runs :
       (now > time_limit[r] /\ run'[r] # run[r]
          /\ run[r].pc \in {"mb_loop", "usb_loop"}) =>
         /\ NoCandidate(r)
         /\ run[r].pc = "usb_loop" => run'[r].pc = "mb_loop"
         /\ run[r].pc = "mb_loop" => run'[r].pc = "done"]_vars

\* a call that returned None on expiry, with candidates left unexplored
C8_Witness ==
  \E r \in Runs :
    /\ Done(r) /\ run[r].result = None /\ now > time_limit[r]
    /\ run[r].usb # Unbound
    /\ run[r].i <= Len(mb_positions)

\* C9 as stated: the MCU of every candidate assignment and of every
\* returned solution has its center at the board center (25, 25).
C9_McuCenterIsBoardCenter ==
  \A r \in Runs :
    /\ run[r].mcu # Unbound => center(run[r].mcu) = <<2 * 25, 2 * 25>>
    /\ Returned(r) => center(Sol(r).MCU) = <<2 * 25, 2 * 25>>

\* C9 amended: the MCU of every candidate assignment and of every returned
\* solution has its top-left corner at (23, 23) and its center at
\* (25.5, 25.5), half a unit from the board center on each axis, whatever
\* mirrored-pair and edge candidates are chosen.
C9_McuCenterIsHalfUnitOffCenter ==
  \A r \in Runs :
    /\ run[r].mcu # Unbound =>
         /\ <<run[r].mcu.x, run[r].mcu.y>> = <<23, 23>>
         /\ center(run[r].mcu) = <<51, 51>>
    /\ Returned(r) => Sol(r).MCU = run[r].mcu

\* the MCU has been built for two different edge candidates
C9_Witness ==
  \E r \in Runs : Returned(r) /\ run[r].mcu # Unbound /\ run[r].j > 2

\* the assignment built from the i-th pair, the j-th edge position and
\* offset off, and whether it passes every check of the search
PairOf(i, n) ==
  LET c == mb_positions[i][n + 1] IN
  Component(IF n = 1 THEN "MB1" ELSE "MB2", COMP_SPECS.MB1, c[1], c[2], c[3])
UsbOf(j) ==
  LET c == usb_positions[j] IN Component("USB", COMP_SPECS.USB, c[1], c[2], c[3])
McuOf == Component("MCU", COMP_SPECS.MCU, 23, 23, 0)
CrystalOf(off) ==
  Component("CRYSTAL", COMP_SPECS.CRYSTAL, 23 + off[1], 23 + off[2], 0)

Passes(i, j, off) ==
  LET all == <<UsbOf(j), PairOf(i, 1), PairOf(i, 2), McuOf, CrystalOf(off)>> IN
  /\ \A n \in 1..5 : inside_board(all[n])
  /\ \A m, n \in 1..5 : m < n => ~rect_overlap(rect(all[m]), rect(all[n]))
  /\ ~distance_gt(center(all[5]), center(all[4]), 10, 2)
  /\ ~line_segment_intersects_rect(center(all[5]), center(all[4]),
                                   compute_usb_keepout(all[1]))
  /\ ~distance_gt(center_of_mass(all), <<250, 250>>, 2, 10)

Offsets == {off \in (-10..10) \X (-10..10) : off[1] * off[1] + off[2] * off[2] <= 100}

\* (i, j, off) comes before (i2, j2, off2): pair list order, then edge list
\* order, then dx ascending, then dy ascending
Precedes(i, j, off, i2, j2, off2) ==
  \/ i < i2
  \/ i = i2 /\ j < j2
  \/ i = i2 /\ j = j2 /\ off[1] < off2[1]
  \/ i = i2 /\ j = j2 /\ off[1] = off2[1] /\ off[2] < off2[2]

\* C10: a call whose budget is never exceeded returns the first assignment,
\* in lexicographic search order, that passes all checks (None only if none
\* passes), and two such calls return identical results.
C10_FirstFeasibleInSearchOrder ==
  /\ \A r \in Runs :
       NeverExceeded(r) =>
         IF run[r].result = None
         THEN \A i \in 1..Len(mb_positions), j \in 1..Len(usb_positions),
                 off \in Offsets : ~Passes(i, j, off)
         ELSE \E i \in {n \in 1..Len(mb_positions) :
                          Sol(r).MB1 = PairOf(n, 1) /\ Sol(r).MB2 = PairOf(n, 2)},
                 j \in {n \in 1..Len(usb_positions) : Sol(r).USB = UsbOf(n)},
                 off \in {o \in Offsets : Sol(r).CRYSTAL = CrystalOf(o)} :
                /\ Sol(r).MCU = McuOf
                /\ Passes(i, j, off)
                /\ \A i0 \in 1..i :
                     \A j0 \in 1..(IF i0 = i THEN j ELSE Len(usb_positions)) :
                       \A off0 \in Offsets :
                         Precedes(i0, j0, off0, i, j, off) => ~Passes(i0, j0, off0)
  /\ \A a, b \in Runs :
       (NeverExceeded(a) /\ NeverExceeded(b)) => run[a].result = run[b].result

\* the returned assignment is not the first triple of the search order:
\* earlier triples were tried and rejected
C10_Witness ==
  \E r \in Runs :
    /\ NeverExceeded(r) /\ Returned(r)
    /\ run[r].j > 1 /\ run[r].k > 1
    /\ Sol(r).CRYSTAL = crystal_at(run[r].mcu, crystal_offsets[run[r].k])

=============================================================================
